---- MODULE Spec2Model ----
(***************************************************************************)
(* Key distribution server: the claim -> issue -> redeem protocol of       *)
(* server.js over a Redis set (the Pool), the issued_pages table (the      *)
(* Ledger), the keys table (the catalog) and the page_ttl:* Redis keys     *)
(* (the expiry markers).                                                   *)
(*                                                                         *)
(* Every `await` of a handler is one atomic step of the request that runs  *)
(* it; requests interleave between their awaits.  A store call may fail    *)
(* (network fault, timeout): each step has a failing variant that follows  *)
(* the handler's catch block.                                              *)
(***************************************************************************)
EXTENDS Integers, Sequences, FiniteSets, TLC

\* ------------------------------------------------------------------ bounds
\* Number of request-handling units that can be in flight at once.
MaxCalls == 2
\* Number of issued_pages rows the model lets /claim create.
MaxLinks == 2
\* Number of store calls (Redis or Postgres) that fail in one behaviour.
MaxFaults == 1

\* ------------------------------------------------------------ value domains
\* Key texts of the keys table, as sequences of characters ('&' and '<' are
\* escaped by escapeHtml).  The last one has been deprecated by hand.
KeyValues == { <<"A", "1">>, <<"B", "&">>, <<"<", "C">> }
Deprecated == { <<"<", "C">> }

\* JavaScript null / SQL NULL of a text value, of a key text, of a timestamp.
NULL == "NULL"
NoKey == << >>
NoTime == 0

Calls == 1 .. MaxCalls
\* uuidv4() values are 1..MaxLinks; 0 is a path parameter that is no UUID
\* ("does-not-exist").
Uuids == 1 .. MaxLinks
PageIds == 0 .. MaxLinks
\* (req.ip, User-Agent) of the /key requests a unit serves; a missing
\* User-Agent header is ''.
Requester(c) == IF c = 1 THEN <<"10.0.0.1", "Mozilla">> ELSE <<"10.0.0.2", "">>

VARIABLES
    keys,        \* keys table: set of [key_text, deprecated]
    pool,        \* Redis set KEY_SET
    ledger,      \* issued_pages table: id -> [key_text, used, used_at, ip, user_agent]
    markers,     \* ids i with a live Redis key page_ttl:i
    call,        \* request-handling unit -> its handler, position and locals
                 \* (known: history, the row of pageId existed when /key began)
    refilled,    \* history: some seeding of the Redis set has executed
    popCount,    \* history: key text -> number of times sPop returned it
    delivered,   \* history: key text -> number of pages served that show it
    redeemed,    \* history: page id -> number of 200 responses of /key/:pageId
    issuedKey,   \* history: page id -> key text popped by the /claim that inserted it
    issueOk,     \* history: number of /claim requests answered with a redirect
    issueErr,    \* history: number of /claim requests answered 500
    lastSeed,    \* history: the Redis set as the latest seeding left it
    faults       \* history: number of store calls that have failed

vars == << keys, pool, ledger, markers, call, refilled, popCount, delivered,
           redeemed, issuedKey, issueOk, issueErr, lastSeed, faults >>

hist == << refilled, popCount, delivered, redeemed, issuedKey, issueOk, issueErr,
          lastSeed >>

\* A store call fails: a network fault or a timeout of the round trip.
StoreFault ==
    /\ faults < MaxFaults
    /\ faults' = faults + 1


\* ------------------------------------------------------------------ helpers
\* server.js:33-35  escapeHtml: String(s || '') with & < > " ' replaced.
EscapeChar(ch) ==
    CASE ch = "&"  -> <<"&", "a", "m", "p", ";">>
      [] ch = "<"  -> <<"&", "l", "t", ";">>
      [] ch = ">"  -> <<"&", "g", "t", ";">>
      [] ch = "\"" -> <<"&", "q", "u", "o", "t", ";">>
      [] ch = "'"  -> <<"&", "#", "3", "9", ";">>
      [] OTHER     -> <<ch>>

RECURSIVE escapeHtml(_)
escapeHtml(s) ==
    IF s = NoKey THEN <<>>
    ELSE EscapeChar(Head(s)) \o escapeHtml(Tail(s))

\* migrate.js:17  id UUID PRIMARY KEY: a parameter compared with id must parse
\* as a uuid, or the query raises "invalid input syntax for type uuid".
IsUuid(id) == id \in Uuids

\* Defective variant of NonDeprecated: the WHERE clause is missing.
NonDeprecated_all(tbl) == { r.key_text : r \in tbl }

\* SELECT key_text FROM keys WHERE deprecated = false
NonDeprecated(tbl) == { r.key_text : r \in { x \in tbl : x.deprecated = FALSE } }

\* uuidv4(): an identifier no row has.
uuidv4 == Cardinality(DOMAIN ledger) + 1

\* Number of keys sPop has handed out so far.
RECURSIVE SumOver(_, _)
SumOver(f, S) ==
    IF S = {} THEN 0
    ELSE LET x == CHOOSE y \in S : TRUE IN f[x] + SumOver(f, S \ {x})
PopTotal == SumOver(popCount, KeyValues)

\* A unit that runs no handler.
Idle == [ op |-> "none", pc |-> "idle", pageId |-> 0, req |-> <<NULL, NULL>>,
          poppedKey |-> NoKey, keyText |-> NoKey, used |-> FALSE, rows |-> {},
          status |-> 0, result |-> "none", body |-> <<>>, err |-> "none",
          committed |-> FALSE, known |-> FALSE ]

\* res.status(..).send(..): the handler has answered.
Respond(c, st, result, body, err) ==
    [ Idle EXCEPT !.op = call[c].op, !.pc = "done", !.pageId = call[c].pageId,
                  !.poppedKey = call[c].poppedKey, !.committed = call[c].committed,
                  !.known = call[c].known,
                  !.status = st, !.result = result, !.body = body, !.err = err ]

\* ------------------------------------------------------------------- Init
\* The deployment has run migrate.js, filled the keys table (some rows may
\* have been deprecated by hand) and seeded the Redis set from it
\* (seed_redis_from_db); no page has been issued.
Init ==
    /\ keys = { [key_text |-> k, deprecated |-> (k \in Deprecated)] : k \in KeyValues }
    /\ pool = NonDeprecated(keys)
    /\ ledger = << >>
    /\ markers = {}
    /\ call = [ c \in Calls |-> Idle ]
    /\ refilled = FALSE
    /\ popCount = [ k \in KeyValues |-> 0 ]
    /\ delivered = [ k \in KeyValues |-> 0 ]
    /\ redeemed = [ i \in Uuids |-> 0 ]
    /\ issuedKey = << >>
    /\ issueOk = 0
    /\ issueErr = 0
    /\ lastSeed = pool
    /\ faults = 0

\* ------------------------------------------------------- GET /claim (41-67)
\* Defective variants of sPop: sRandMember (the member stays), and a pop of
\* every member.
sPop_keeps(set, k) == set
sPop_drains(set, k) == {}

\* redis.sPop(KEY_SET): the set without the member it returned.
sPop(set, k) == set \ {k}

\* Defective variants of InsertIssuedPage: the row is created used; the row
\* is not persisted.
InsertIssuedPage_used(tbl, id, key) ==
    (id :> [ key_text |-> key, used |-> TRUE, used_at |-> NoTime,
             ip |-> NULL, user_agent |-> NULL ]) @@ tbl
InsertIssuedPage_lost(tbl, id, key) == tbl

\* INSERT INTO issued_pages(id, key_text, created_at, used) VALUES($1, $2, now(), false)
InsertIssuedPage(tbl, id, key) ==
    (id :> [ key_text |-> key, used |-> FALSE, used_at |-> NoTime,
             ip |-> NULL, user_agent |-> NULL ]) @@ tbl

\* Defective variant of IssuePop: the check for an empty set is missing and
\* the request fails as a server error.
IssuePop_noEmptyCheck(c) ==
    /\ UNCHANGED faults
    /\ UNCHANGED lastSeed
    /\ call[c].pc = "idle"
    /\ IF pool = {}
       THEN /\ call' = [ call EXCEPT ![c] =
                  [ Idle EXCEPT !.op = "claim", !.pc = "done", !.status = 500,
                                !.result = "StoreError" ] ]
            /\ UNCHANGED << pool, popCount >>
       ELSE /\ PopTotal < MaxLinks
            /\ \E k \in pool :
                  /\ pool' = sPop(pool, k)
                  /\ popCount' = [ popCount EXCEPT ![k] = @ + 1 ]
                  /\ call' = [ call EXCEPT ![c] =
                        [ Idle EXCEPT !.op = "claim", !.pc = "insert", !.poppedKey = k ] ]
    /\ UNCHANGED << keys, ledger, markers, refilled, delivered, redeemed,
                    issuedKey, issueOk, issueErr >>

\* line 46-49: pop a random member; an empty set answers 404.
IssuePop(c) ==
    /\ UNCHANGED faults
    /\ UNCHANGED lastSeed
    /\ call[c].pc = "idle"
    /\ IF pool = {}
       THEN /\ call' = [ call EXCEPT ![c] =
                  [ Idle EXCEPT !.op = "claim", !.pc = "done", !.status = 404,
                                !.result = "NoInventory" ] ]
            /\ UNCHANGED << pool, popCount >>
       ELSE /\ PopTotal < MaxLinks
            /\ \E k \in pool :
                  /\ pool' = sPop(pool, k)
                  /\ popCount' = [ popCount EXCEPT ![k] = @ + 1 ]
                  /\ call' = [ call EXCEPT ![c] =
                        [ Idle EXCEPT !.op = "claim", !.pc = "insert", !.poppedKey = k ] ]
    /\ UNCHANGED << keys, ledger, markers, refilled, delivered, redeemed,
                    issuedKey, issueOk, issueErr >>

\* line 46 throws: catch, 500.
IssuePopFail(c) ==
    /\ StoreFault
    /\ UNCHANGED lastSeed
    /\ call[c].pc = "idle"
    /\ call' = [ call EXCEPT ![c] =
          [ Idle EXCEPT !.op = "claim", !.pc = "done", !.status = 500,
                        !.result = "StoreError", !.err = "fault" ] ]
    /\ issueErr' = issueErr + 1
    /\ UNCHANGED << keys, pool, ledger, markers, refilled, popCount, delivered,
                    redeemed, issuedKey, issueOk >>

\* line 52-56: fresh id, insert the row.
IssueInsert(c) ==
    /\ UNCHANGED faults
    /\ UNCHANGED lastSeed
    /\ call[c].op = "claim" /\ call[c].pc = "insert"
    /\ LET id == uuidv4 IN
          /\ ledger' = InsertIssuedPage(ledger, id, call[c].poppedKey)
          /\ issuedKey' = (id :> call[c].poppedKey) @@ issuedKey
          /\ call' = [ call EXCEPT ![c].pageId = id, ![c].pc = "setex" ]
    /\ UNCHANGED << keys, pool, markers, refilled, popCount, delivered, redeemed,
                    issueOk, issueErr >>

\* line 53 throws: catch, 500; the popped key is in no store.
IssueInsertFail(c) ==
    /\ StoreFault
    /\ UNCHANGED lastSeed
    /\ call[c].op = "claim" /\ call[c].pc = "insert"
    /\ call' = [ call EXCEPT ![c] = Respond(c, 500, "StoreError", <<>>, "fault") ]
    /\ issueErr' = issueErr + 1
    /\ UNCHANGED << keys, pool, ledger, markers, refilled, popCount, delivered,
                    redeemed, issuedKey, issueOk >>

\* line 59-62: arm page_ttl:<id>, redirect to /key/<id>.
IssueSetEx(c) ==
    /\ UNCHANGED faults
    /\ UNCHANGED lastSeed
    /\ call[c].op = "claim" /\ call[c].pc = "setex"
    /\ markers' = markers \cup { call[c].pageId }
    /\ call' = [ call EXCEPT ![c] = Respond(c, 302, "Link", <<>>, "none") ]
    /\ issueOk' = issueOk + 1
    /\ UNCHANGED << keys, pool, ledger, refilled, popCount, delivered, redeemed,
                    issuedKey, issueErr >>

\* line 59 throws: catch, 500; the row inserted at line 53 stays.
IssueSetExFail(c) ==
    /\ StoreFault
    /\ UNCHANGED lastSeed
    /\ call[c].op = "claim" /\ call[c].pc = "setex"
    /\ call' = [ call EXCEPT ![c] = Respond(c, 500, "StoreError", <<>>, "fault") ]
    /\ issueErr' = issueErr + 1
    /\ UNCHANGED << keys, pool, ledger, markers, refilled, popCount, delivered,
                    redeemed, issuedKey, issueOk >>

\* Redis drops page_ttl:<id> when its CLAIM_TTL_SECONDS have passed.
ExpireMarker(i) ==
    /\ UNCHANGED faults
    /\ i \in markers
    /\ markers' = markers \ {i}
    /\ UNCHANGED << keys, pool, ledger, call, hist >>

\* The response has been sent; the unit takes the next request.
Return(c) ==
    /\ UNCHANGED faults
    /\ call[c].pc = "done"
    /\ call' = [ call EXCEPT ![c] = Idle ]
    /\ UNCHANGED << keys, pool, ledger, markers, hist >>

\* -------------------------------------------------- GET /key/:pageId (70-115)
\* Defective variants of RowLockedByOther: a SELECT without FOR UPDATE never
\* waits; a transaction that is never ended keeps the row lock after the answer.
RowLockedByOther_noLock(c, id) == FALSE
RowLockedByOther_leak(c, id) ==
    \E d \in Calls \ {c} :
        /\ call[d].op = "key"
        /\ call[d].pageId = id
        /\ call[d].pc \in { "rollback410", "update", "commit", "del", "done" }

\* FOR UPDATE: the row is locked by another open transaction that selected it.
RowLockedByOther(c, id) ==
    \E d \in Calls \ {c} :
        /\ call[d].op = "key"
        /\ call[d].pageId = id
        /\ call[d].pc \in { "rollback410", "update", "commit" }

\* Defective variants of SelectIssuedPage: the WHERE clause is missing; a
\* row is found only while its page_ttl marker is alive.
SelectIssuedPage_anyRow(tbl, id) == DOMAIN tbl
SelectIssuedPage_liveMarker(tbl, id) == { i \in DOMAIN tbl : i = id /\ i \in markers }

\* SELECT key_text, used FROM issued_pages WHERE id = $1
SelectIssuedPage(tbl, id) == { i \in DOMAIN tbl : i = id }

\* UPDATE issued_pages SET used = true, used_at = now(), ip = $2, user_agent = $3 WHERE id = $1
\* (now() is the position of the commit among the commits so far)
UpdateIssuedPage(tbl, id, r) ==
    [ tbl EXCEPT ![id] =
        [ @ EXCEPT !.used = TRUE,
                   !.used_at = Cardinality({ i \in DOMAIN tbl : tbl[i].used }) + 1,
                   !.ip = r[1], !.user_agent = r[2] ] ]

\* line 107: the text the served page shows.
Page(keyText) == escapeHtml(keyText)

\* line 76-78: take a connection, BEGIN.
RedeemBegin(c, id) ==
    /\ UNCHANGED faults
    /\ call[c].pc = "idle"
    /\ call' = [ call EXCEPT ![c] =
          [ Idle EXCEPT !.op = "key", !.pc = "select", !.pageId = id,
                        !.req = Requester(c), !.known = (id \in DOMAIN ledger) ] ]
    /\ UNCHANGED << keys, pool, ledger, markers, hist >>

\* line 76 throws outside the try block: the handler rejects and sends nothing.
RedeemConnectFail(c, id) ==
    /\ StoreFault
    /\ call[c].pc = "idle"
    /\ call' = [ call EXCEPT ![c] =
          [ Idle EXCEPT !.op = "key", !.pc = "done", !.pageId = id, !.req = Requester(c),
                        !.result = "NoResponse", !.err = "fault" ] ]
    /\ UNCHANGED << keys, pool, ledger, markers, hist >>

\* line 78 throws: catch, ROLLBACK, 500.
RedeemBeginFail(c, id) ==
    /\ StoreFault
    /\ call[c].pc = "idle"
    /\ call' = [ call EXCEPT ![c] =
          [ Idle EXCEPT !.op = "key", !.pc = "done", !.pageId = id, !.req = Requester(c),
                        !.status = 500, !.result = "StoreError", !.err = "fault" ] ]
    /\ UNCHANGED << keys, pool, ledger, markers, hist >>

\* line 79-93: SELECT ... FOR UPDATE waits for the row lock, then reads the
\* committed row.  A parameter that is no uuid makes the query throw.
RedeemSelect(c) ==
    /\ UNCHANGED faults
    /\ call[c].op = "key" /\ call[c].pc = "select"
    /\ LET id == call[c].pageId
           q  == SelectIssuedPage(ledger, id)
       IN  IF ~IsUuid(id)
           THEN call' = [ call EXCEPT ![c] =
                    Respond(c, 500, "StoreError", <<>>, "syntax") ]
           ELSE IF q = {}
           THEN call' = [ call EXCEPT ![c].pc = "rollback404" ]
           ELSE /\ ~RowLockedByOther(c, id)
                /\ \E i \in q :
                     call' = [ call EXCEPT
                        ![c].keyText = ledger[i].key_text,
                        ![c].used = ledger[i].used,
                        ![c].pc = IF ledger[i].used THEN "rollback410" ELSE "update" ]
    /\ UNCHANGED << keys, pool, ledger, markers, hist >>

\* line 79 throws (fault or timeout): catch, ROLLBACK, 500.
RedeemSelectFail(c) ==
    /\ StoreFault
    /\ call[c].op = "key" /\ call[c].pc = "select"
    /\ call' = [ call EXCEPT ![c] = Respond(c, 500, "StoreError", <<>>, "fault") ]
    /\ UNCHANGED << keys, pool, ledger, markers, hist >>

\* line 85-86 and 91-92: ROLLBACK (the row lock is released), 404 or 410.
RedeemRollback(c) ==
    /\ UNCHANGED faults
    /\ call[c].op = "key" /\ call[c].pc \in { "rollback404", "rollback410" }
    /\ call' = [ call EXCEPT ![c] =
          IF call[c].pc = "rollback404"
          THEN Respond(c, 404, "NotFound", <<>>, "none")
          ELSE Respond(c, 410, "AlreadyConsumed", <<>>, "none") ]
    /\ UNCHANGED << keys, pool, ledger, markers, hist >>

\* line 85 or 91 throws: catch, 500; the transaction ends with its connection.
RedeemRollbackFail(c) ==
    /\ StoreFault
    /\ call[c].op = "key" /\ call[c].pc \in { "rollback404", "rollback410" }
    /\ call' = [ call EXCEPT ![c] = Respond(c, 500, "StoreError", <<>>, "fault") ]
    /\ UNCHANGED << keys, pool, ledger, markers, hist >>

\* line 96-99: UPDATE inside the open transaction (not visible before COMMIT).
RedeemUpdate(c) ==
    /\ UNCHANGED faults
    /\ call[c].op = "key" /\ call[c].pc = "update"
    /\ call' = [ call EXCEPT ![c].pc = "commit" ]
    /\ UNCHANGED << keys, pool, ledger, markers, hist >>

\* line 96 throws: catch, ROLLBACK, 500.
RedeemUpdateFail(c) ==
    /\ StoreFault
    /\ call[c].op = "key" /\ call[c].pc = "update"
    /\ call' = [ call EXCEPT ![c] = Respond(c, 500, "StoreError", <<>>, "fault") ]
    /\ UNCHANGED << keys, pool, ledger, markers, hist >>

\* line 100: COMMIT publishes the update and releases the row lock.
RedeemCommit(c) ==
    /\ UNCHANGED faults
    /\ call[c].op = "key" /\ call[c].pc = "commit"
    /\ ledger' = UpdateIssuedPage(ledger, call[c].pageId, call[c].req)
    /\ call' = [ call EXCEPT ![c].pc = "del", ![c].committed = TRUE ]
    /\ UNCHANGED << keys, pool, markers, hist >>

\* line 100 throws: the transaction is aborted; catch, 500.
RedeemCommitFail(c) ==
    /\ StoreFault
    /\ call[c].op = "key" /\ call[c].pc = "commit"
    /\ call' = [ call EXCEPT ![c] = Respond(c, 500, "StoreError", <<>>, "fault") ]
    /\ UNCHANGED << keys, pool, ledger, markers, hist >>

\* line 103-107: delete page_ttl:<id>, send the page with the key.
RedeemDel(c) ==
    /\ UNCHANGED faults
    /\ UNCHANGED lastSeed
    /\ call[c].op = "key" /\ call[c].pc = "del"
    /\ markers' = markers \ { call[c].pageId }
    /\ call' = [ call EXCEPT ![c] =
          Respond(c, 200, "Key", Page(call[c].keyText), "none") ]
    /\ delivered' = [ delivered EXCEPT ![call[c].keyText] = @ + 1 ]
    /\ redeemed' = [ redeemed EXCEPT ![call[c].pageId] = @ + 1 ]
    /\ UNCHANGED << keys, pool, ledger, refilled, popCount, issuedKey, issueOk,
                    issueErr >>

\* line 103 throws after the COMMIT: catch, ROLLBACK (of nothing), 500.
RedeemDelFail(c) ==
    /\ StoreFault
    /\ call[c].op = "key" /\ call[c].pc = "del"
    /\ call' = [ call EXCEPT ![c] = Respond(c, 500, "StoreError", <<>>, "fault") ]
    /\ UNCHANGED << keys, pool, ledger, markers, hist >>

\* ----------------------------------------- POST /admin/seed-redis (119-136)
\* Defective variant of sAddAll: a member already present is removed (toggled).
sAddAll_toggle(set, rows) == (set \ rows) \cup (rows \ set)

\* pipeline.sAdd(KEY_SET, r.key_text) for every row, in one MULTI.
sAddAll(set, rows) == set \cup rows

\* line 120-121: no token, or not ADMIN_TOKEN.
RefillUnauthorized(c) ==
    /\ UNCHANGED faults
    /\ call[c].pc = "idle"
    /\ call' = [ call EXCEPT ![c] =
          [ Idle EXCEPT !.op = "seed", !.pc = "done", !.status = 401,
                        !.result = "Unauthorized" ] ]
    /\ UNCHANGED << keys, pool, ledger, markers, hist >>

\* line 124-125: read the catalog.
RefillSelect(c) ==
    /\ UNCHANGED faults
    /\ call[c].pc = "idle"
    /\ LET rows == NonDeprecated(keys) IN
          call' = [ call EXCEPT ![c] =
             IF rows = {}
             THEN [ Idle EXCEPT !.op = "seed", !.pc = "done", !.status = 200,
                                !.result = "NoKeys" ]
             ELSE [ Idle EXCEPT !.op = "seed", !.pc = "exec", !.rows = rows ] ]
    /\ UNCHANGED << keys, pool, ledger, markers, hist >>

\* line 124 throws: catch, 500.
RefillSelectFail(c) ==
    /\ StoreFault
    /\ call[c].pc = "idle"
    /\ call' = [ call EXCEPT ![c] =
          [ Idle EXCEPT !.op = "seed", !.pc = "done", !.status = 500,
                        !.result = "StoreError", !.err = "fault" ] ]
    /\ UNCHANGED << keys, pool, ledger, markers, hist >>

\* line 128-131: add the rows read to the set.
RefillExec(c) ==
    /\ UNCHANGED faults
    /\ call[c].op = "seed" /\ call[c].pc = "exec"
    /\ pool' = sAddAll(pool, call[c].rows)
    /\ refilled' = TRUE
    /\ lastSeed' = pool'
    /\ call' = [ call EXCEPT ![c] = Respond(c, 200, "Seeded", <<>>, "none") ]
    /\ UNCHANGED << keys, ledger, markers, popCount, delivered, redeemed,
                    issuedKey, issueOk, issueErr >>

\* line 130 throws: catch, 500.
RefillExecFail(c) ==
    /\ StoreFault
    /\ call[c].op = "seed" /\ call[c].pc = "exec"
    /\ call' = [ call EXCEPT ![c] = Respond(c, 500, "StoreError", <<>>, "fault") ]
    /\ UNCHANGED << keys, pool, ledger, markers, hist >>

\* ------------------------------------------------------------ specification
Next ==
    \/ \E c \in Calls : IssuePop(c)
    \/ \E c \in Calls : IssuePopFail(c)
    \/ \E c \in Calls : IssueInsert(c)
    \/ \E c \in Calls : IssueInsertFail(c)
    \/ \E c \in Calls : IssueSetEx(c)
    \/ \E c \in Calls : IssueSetExFail(c)
    \/ \E c \in Calls, id \in PageIds : RedeemBegin(c, id)
    \/ \E c \in Calls, id \in PageIds : RedeemConnectFail(c, id)
    \/ \E c \in Calls, id \in PageIds : RedeemBeginFail(c, id)
    \/ \E c \in Calls : RedeemSelect(c)
    \/ \E c \in Calls : RedeemSelectFail(c)
    \/ \E c \in Calls : RedeemRollback(c)
    \/ \E c \in Calls : RedeemRollbackFail(c)
    \/ \E c \in Calls : RedeemUpdate(c)
    \/ \E c \in Calls : RedeemUpdateFail(c)
    \/ \E c \in Calls : RedeemCommit(c)
    \/ \E c \in Calls : RedeemCommitFail(c)
    \/ \E c \in Calls : RedeemDel(c)
    \/ \E c \in Calls : RedeemDelFail(c)
    \/ \E c \in Calls : RefillUnauthorized(c)
    \/ \E c \in Calls : RefillSelect(c)
    \/ \E c \in Calls : RefillSelectFail(c)
    \/ \E c \in Calls : RefillExec(c)
    \/ \E c \in Calls : RefillExecFail(c)
    \/ \E i \in Uuids : ExpireMarker(i)
    \/ \E c \in Calls : Return(c)

Spec == Init /\ [][Next]_vars

\* A handler that has started runs on: every await of it settles (the reply of
\* the store, or a rejection), and the event loop then runs its continuation.
Continue(c) ==
    \/ IssueInsert(c) \/ IssueInsertFail(c)
    \/ IssueSetEx(c) \/ IssueSetExFail(c)
    \/ RedeemSelect(c) \/ RedeemSelectFail(c)
    \/ RedeemRollback(c) \/ RedeemRollbackFail(c)
    \/ RedeemUpdate(c) \/ RedeemUpdateFail(c)
    \/ RedeemCommit(c) \/ RedeemCommitFail(c)
    \/ RedeemDel(c) \/ RedeemDelFail(c)
    \/ RefillExec(c) \/ RefillExecFail(c)

\* What the run time guarantees: handlers run on; a transaction waiting for the
\* row lock of SELECT ... FOR UPDATE gets it once the holders ahead of it in the
\* lock queue have ended; Redis expires a page_ttl key when its TTL has passed.
\* Nothing makes a request arrive.
Fairness ==
    /\ \A c \in Calls : WF_vars(Continue(c))
    /\ \A c \in Calls : SF_vars(RedeemSelect(c))
    /\ \A i \in Uuids : WF_vars(ExpireMarker(i))

SpecFair == Init /\ [][Next]_vars /\ Fairness

\* The ids of the rows that /claim can have written: one per key of the set,
\* as far as the ids go.
IssuedIds ==
    { i \in Uuids : i <= Cardinality(NonDeprecated(
          { [key_text |-> k, deprecated |-> (k \in Deprecated)] : k \in KeyValues })) }

\* The /key requests on their own: the /claim requests that answered 302 have
\* handed out the rows IssuedIds (markers armed), and from then on only /key
\* requests arrive.
InitRedeem ==
    /\ keys = { [key_text |-> k, deprecated |-> (k \in Deprecated)] : k \in KeyValues }
    /\ \E f \in [ IssuedIds -> NonDeprecated(keys) ] :
          /\ \A i, j \in IssuedIds : f[i] = f[j] => i = j
          /\ pool = NonDeprecated(keys) \ { f[i] : i \in IssuedIds }
          /\ ledger = [ i \in IssuedIds |->
                          [ key_text |-> f[i], used |-> FALSE, used_at |-> NoTime,
                            ip |-> NULL, user_agent |-> NULL ] ]
          /\ issuedKey = f
          /\ popCount = [ k \in KeyValues |->
                            IF \E i \in IssuedIds : f[i] = k THEN 1 ELSE 0 ]
    /\ markers = IssuedIds
    /\ call = [ c \in Calls |-> Idle ]
    /\ refilled = FALSE
    /\ delivered = [ k \in KeyValues |-> 0 ]
    /\ redeemed = [ i \in Uuids |-> 0 ]
    /\ issueOk = Cardinality(IssuedIds)
    /\ issueErr = 0
    /\ lastSeed = NonDeprecated(keys)
    /\ faults = 0

NextRedeem ==
    \/ \E c \in Calls, id \in PageIds : RedeemBegin(c, id)
    \/ \E c \in Calls, id \in PageIds : RedeemConnectFail(c, id)
    \/ \E c \in Calls, id \in PageIds : RedeemBeginFail(c, id)
    \/ \E c \in Calls : RedeemSelect(c)
    \/ \E c \in Calls : RedeemSelectFail(c)
    \/ \E c \in Calls : RedeemRollback(c)
    \/ \E c \in Calls : RedeemRollbackFail(c)
    \/ \E c \in Calls : RedeemUpdate(c)
    \/ \E c \in Calls : RedeemUpdateFail(c)
    \/ \E c \in Calls : RedeemCommit(c)
    \/ \E c \in Calls : RedeemCommitFail(c)
    \/ \E c \in Calls : RedeemDel(c)
    \/ \E c \in Calls : RedeemDelFail(c)
    \/ \E i \in Uuids : ExpireMarker(i)
    \/ \E c \in Calls : Return(c)

SpecRedeem == InitRedeem /\ [][NextRedeem]_vars /\ Fairness

\* ------------------------------------------------------------------ claims
Done(c) == call[c].pc = "done"

\* /claim requests that hold a popped key and have not answered yet.
InFlightPopped == { c \in Calls : call[c].op = "claim" /\ call[c].pc \in { "insert", "setex" } }

\* Rows of the issued_pages table bound to key text k.
LinksOf(k) == { i \in DOMAIN ledger : ledger[i].key_text = k }

\* C1: no key text is shown by more than one served page, whatever /claim,
\* /key and seeding requests interleave.
C1_EachKeyDeliveredAtMostOnce ==
    \A k \in KeyValues : delivered[k] <= 1

\* C2: for every page id at most one /key request is answered with the key;
\* every other /key request for an issued id that no store fault hits is
\* answered 410 (already claimed), and only once the winner has committed.
C2_OneWinnerPerLink ==
    /\ \A id \in Uuids : redeemed[id] <= 1
    /\ \A c \in Calls :
          (Done(c) /\ call[c].op = "key" /\ call[c].known /\ call[c].err = "none") =>
              \/ call[c].result = "Key" /\ redeemed[call[c].pageId] = 1
              \/ /\ call[c].result = "AlreadyConsumed"
                 /\ ledger[call[c].pageId].used

\* C2 witness: two /key requests for the same id have both answered, one with
\* the key and one with 410.
C2_Witness ==
    \E c, d \in Calls :
        /\ Done(c) /\ Done(d)
        /\ call[c].op = "key" /\ call[d].op = "key"
        /\ call[c].pageId = call[d].pageId
        /\ call[c].result = "Key" /\ call[d].result = "AlreadyConsumed"

\* C3: with no seeding since the initial one and no /claim hit by a store
\* fault, every entry of the initial Pool is either still in the Pool, held by
\* a /claim in flight, or was handed out by a /claim that answered with a
\* link; a /claim is answered 404 (no keys) only when the Pool is empty.  So
\* of the /claim requests against a Pool of K entries exactly K get a link and
\* the others get 404.
C3_ExactlyKIssuesSucceed ==
    (~refilled /\ issueErr = 0) =>
        /\ issueOk + Cardinality(InFlightPopped) + Cardinality(pool)
              = Cardinality(NonDeprecated(keys))
        /\ \A c \in Calls :
              (Done(c) /\ call[c].op = "claim") =>
                  \/ call[c].result = "Link"
                  \/ /\ call[c].result = "NoInventory"
                     /\ pool = {}
                     /\ issueOk + Cardinality(InFlightPopped)
                           = Cardinality(NonDeprecated(keys))

\* C3 witness: all K = 2 entries were handed out and a further /claim got 404.
C3_Witness ==
    /\ ~refilled /\ issueErr = 0
    /\ issueOk = Cardinality(NonDeprecated(keys))
    /\ issueOk = 2
    /\ \E c \in Calls : Done(c) /\ call[c].op = "claim" /\ call[c].result = "NoInventory"

\* C4: with no seeding since the initial one, no two /claim requests hold or
\* have bound the same key text: the keys held in flight and the key texts of
\* the issued_pages rows are pairwise distinct.
C4_NoTwoIssuesShareKey ==
    ~refilled =>
        /\ \A i, j \in DOMAIN ledger : i # j => ledger[i].key_text # ledger[j].key_text
        /\ \A c, d \in InFlightPopped : c # d => call[c].poppedKey # call[d].poppedKey
        /\ \A c \in InFlightPopped :
              \A i \in DOMAIN ledger :
                  (i # call[c].pageId) => ledger[i].key_text # call[c].poppedKey

\* C4 witness: two /claim requests raced, both hold a popped key.
C4_Witness ==
    /\ ~refilled
    /\ \A c \in Calls : call[c].op = "claim" /\ call[c].pc = "setex"

\* C5: a key text that sPop has returned is bound to exactly one page id
\* and sPop never returns it again.
C5_NeverPoppedAgain ==
    \A k \in KeyValues :
        /\ popCount[k] <= 1
        /\ Cardinality(LinksOf(k)) <= 1

\* C6: every /key request that committed used = true answers with the key,
\* also when deleting page_ttl:<id> fails.
C6_CommittedConsumptionDelivers ==
    \A c \in Calls :
        (Done(c) /\ call[c].op = "key" /\ call[c].committed) => call[c].result = "Key"

\* C7: every /claim request that inserted its issued_pages row answers with
\* the link, also when creating page_ttl:<id> fails.
C7_MarkerFailureStillIssues ==
    \A c \in Calls :
        (Done(c) /\ call[c].op = "claim" /\ call[c].pageId \in DOMAIN ledger)
            => call[c].result = "Link"

\* C8: a request answered 500 has left no mutation behind: a /claim has its
\* popped key back in the Pool and has inserted no row, a /key has not
\* committed used = true.
C8_StoreErrorLeavesNoMutation ==
    \A c \in Calls :
        (Done(c) /\ call[c].result = "StoreError") =>
            /\ call[c].op = "claim" =>
                  /\ call[c].poppedKey = NoKey \/ call[c].poppedKey \in pool
                  /\ call[c].pageId \notin DOMAIN ledger
            /\ call[c].op = "key" => ~call[c].committed

\* C9: a /key request for an id that has no issued_pages row, and that no
\* store fault hits, is answered 404 (invalid or expired link).
C9_UnknownLinkNotFound ==
    \A c \in Calls :
        (Done(c) /\ call[c].op = "key" /\ call[c].err # "fault"
                 /\ call[c].pageId \notin DOMAIN ledger)
            => call[c].result = "NotFound"

\* C10: the page served for an id shows the key text that the /claim which
\* inserted the id had popped (HTML-escaped), and no other key text of the
\* catalog escapes to the same text.
C10_RedeemReturnsIssuedKey ==
    \A c \in Calls :
        (Done(c) /\ call[c].op = "key" /\ call[c].result = "Key") =>
            /\ call[c].pageId \in DOMAIN issuedKey
            /\ call[c].body = escapeHtml(issuedKey[call[c].pageId])
            /\ \A k \in KeyValues :
                  escapeHtml(k) = call[c].body => k = issuedKey[call[c].pageId]

\* C10 witness: the second of two issued ids was redeemed while the first is
\* unused, and the served key text is one that escapeHtml changes.
C10_Witness ==
    \E c \in Calls :
        /\ Done(c) /\ call[c].op = "key" /\ call[c].result = "Key"
        /\ call[c].pageId = 2
        /\ 1 \in DOMAIN ledger /\ ~ledger[1].used
        /\ issuedKey[2] = <<"B", "&">>
        /\ call[c].body = <<"B", "&", "a", "m", "p", ";">>

\* The step in which a seeding request executes its MULTI and answers.
RefillExecStep(c) ==
    /\ call[c].op = "seed" /\ call[c].pc = "exec"
    /\ call'[c].pc = "done" /\ call'[c].err = "none"

\* C11: a seeding that executes while the Redis set is still as the previous
\* seeding left it answers 200 and leaves the set as it was.
C11_SecondRefillChangesNothing ==
    [][ \A c \in Calls :
          (RefillExecStep(c) /\ pool = lastSeed) =>
              /\ pool' = pool
              /\ call'[c].status = 200 ]_vars

\* C11 witness: two seeding requests have answered and the set is as the
\* latest one left it.
C11_Witness ==
    /\ refilled /\ pool = lastSeed
    /\ \A c \in Calls : Done(c) /\ call[c].op = "seed" /\ call[c].result = "Seeded"

\* C12: when a seeding request completes, every key text of the catalog with
\* deprecated = false is in the Redis set, and no key text it added has
\* deprecated = true.
C12_RefillInsertsNonDeprecated ==
    [][ \A c \in Calls :
          RefillExecStep(c) =>
              /\ \A r \in keys : ~r.deprecated => r.key_text \in pool'
              /\ \A k \in pool' \ pool :
                    \A r \in keys : r.key_text = k => ~r.deprecated ]_vars

\* C12 witness: a seeding has put back a key text that /claim had popped, and
\* the deprecated key text is not in the set.
C12_Witness ==
    /\ \E c \in Calls : Done(c) /\ call[c].op = "seed" /\ call[c].result = "Seeded"
    /\ pool = lastSeed
    /\ \E k \in pool : popCount[k] > 0
    /\ pool \cap Deprecated = {}

\* C13: an issued_pages row is created with used = false, is never deleted,
\* keeps its key text, and used never goes back from true to false.
C13_ConsumedOnceNeverReverts ==
    [][ /\ \A i \in DOMAIN ledger :
              /\ i \in DOMAIN ledger'
              /\ ledger'[i].key_text = ledger[i].key_text
              /\ ledger[i].used => ledger'[i].used
        /\ \A i \in DOMAIN ledger' \ DOMAIN ledger : ~ledger'[i].used ]_vars

\* C13 witness: a row is used, a later /key request for it was answered 410,
\* and another row is still unused.
C13_Witness ==
    /\ \E c \in Calls :
          /\ Done(c) /\ call[c].op = "key" /\ call[c].result = "AlreadyConsumed"
          /\ ledger[call[c].pageId].used
    /\ \E i \in DOMAIN ledger : ~ledger[i].used

\* The step in which a /key request that read used = true answers.
RedeemUsedStep(c) ==
    /\ call[c].op = "key" /\ call[c].pc = "rollback410"
    /\ call'[c].pc = "done" /\ call'[c].err = "none"

\* C16: a /key request for a row with used = true is answered 410 and
\* changes nothing; a row that is used keeps used_at, ip and user_agent in
\* every step.
C16_ConsumedRowIsFrozen ==
    [][ /\ \A c \in Calls :
              RedeemUsedStep(c) =>
                  /\ call'[c].result = "AlreadyConsumed"
                  /\ ledger' = ledger /\ pool' = pool /\ markers' = markers
        /\ \A i \in DOMAIN ledger :
              ledger[i].used => (i \in DOMAIN ledger' /\ ledger'[i] = ledger[i]) ]_vars

\* C16 witness: a /key request was answered 410 for a row that carries the
\* stamps of the other requester.
C16_Witness ==
    \E c \in Calls :
        /\ Done(c) /\ call[c].op = "key" /\ call[c].result = "AlreadyConsumed"
        /\ ledger[call[c].pageId].used
        /\ ledger[call[c].pageId].ip # Requester(c)[1]
        /\ ledger[call[c].pageId].used_at # NoTime

\* The step in which a /claim request pops (or fails to pop) from the set.
IssuePopStep(c) ==
    /\ call[c].pc = "idle"
    /\ call'[c].op = "claim" /\ call'[c].err = "none"

\* C17: a /claim request that finds the Redis set empty is answered 404 (no
\* keys available) and changes no store: no row, no marker, the set stays
\* empty.
C17_EmptyPoolNoInventory ==
    [][ \A c \in Calls :
          (IssuePopStep(c) /\ pool = {}) =>
              /\ call'[c].pc = "done" /\ call'[c].result = "NoInventory"
              /\ pool' = {} /\ ledger' = ledger /\ markers' = markers ]_vars

\* C17 witness: a /claim was answered 404 after the whole set had been issued.
C17_Witness ==
    /\ pool = {} /\ DOMAIN ledger # {}
    /\ \E c \in Calls : Done(c) /\ call[c].op = "claim" /\ call[c].result = "NoInventory"

\* The step in which the SELECT of a /key request returns.
RedeemSelectStep(c) ==
    /\ call[c].op = "key" /\ call[c].pc = "select"
    /\ call'[c].pc # "select" /\ call'[c].err = "none"

\* The step in which the redis.del of a /key request returns.
RedeemDelStep(c) ==
    /\ call[c].op = "key" /\ call[c].pc = "del"
    /\ call'[c].pc = "done" /\ call'[c].err = "none"

C19_IssuedLinkResolves ==
    /\ \A c \in Calls :
          (Done(c) /\ call[c].op = "claim" /\ call[c].result = "Link")
              => call[c].pageId \in DOMAIN ledger
    /\ \A c \in Calls :
          (call[c].op = "key" /\ call[c].known) =>
              /\ call[c].pageId \in DOMAIN ledger
              /\ call[c].pc # "rollback404"
              /\ call[c].result # "NotFound"

\* C19 witness: a /claim handed out a link and a /key request for it has
\* answered with the key.
C19_Witness ==
    \E c, d \in Calls :
        /\ Done(c) /\ call[c].op = "claim" /\ call[c].result = "Link"
        /\ Done(d) /\ call[d].op = "key" /\ call[d].result = "Key"
        /\ call[d].pageId = call[c].pageId

\* Key texts bound to issued_pages rows.
LedgerKeys == { ledger[i].key_text : i \in DOMAIN ledger }

\* C20: with no seeding since the initial one, the Redis set and the key
\* texts of the issued_pages rows are disjoint, and the entries of the set
\* plus the rows never exceed the initial size of the set.
C20_PoolAndLedgerDisjoint ==
    ~refilled =>
        /\ pool \cap LedgerKeys = {}
        /\ Cardinality(pool) + Cardinality(DOMAIN ledger)
              <= Cardinality(NonDeprecated(keys))

\* C20 witness: a /claim failed between its sPop and its INSERT; the key it
\* popped is in no store.
C20_Witness ==
    /\ ~refilled
    /\ \E c \in Calls :
          /\ Done(c) /\ call[c].op = "claim" /\ call[c].result = "StoreError"
          /\ call[c].poppedKey # NoKey
          /\ call[c].poppedKey \notin pool
          /\ call[c].poppedKey \notin LedgerKeys
    /\ Cardinality(pool) + Cardinality(DOMAIN ledger) < Cardinality(NonDeprecated(keys))

\* C14 as stated: the key text of a row that stays unused is eventually in the
\* Redis set again.
C14_UnredeemedKeyEventuallyBack ==
    \A i \in Uuids :
        (i \in DOMAIN ledger /\ ~ledger[i].used)
            ~> (i \in DOMAIN ledger /\ (ledger[i].used \/ ledger[i].key_text \in pool))

\* C15: a /key request that has opened its transaction and asked for the row
\* lock is eventually answered, whatever the requests holding the lock do.
C15_WaiterEventuallyAnswered ==
    \A c \in Calls :
        (call[c].op = "key" /\ call[c].pc = "select") ~> Done(c)

\* C15 witness: a /key request waits for the row lock that the other request
\* holds.
C15_Witness ==
    \E c \in Calls :
        /\ call[c].op = "key" /\ call[c].pc = "select"
        /\ call[c].pageId \in DOMAIN ledger
        /\ RowLockedByOther(c, call[c].pageId)

====
